---- MODULE Spec2Model ----
(***************************************************************************)
(* Model of compas.rpc.Proxy (src/src/compas/rpc/proxy.py): a client-side *)
(* proxy that reuses or spawns a background XML-RPC server process,        *)
(* forwards JSON-encoded calls to it and tears the process down again.     *)
(***************************************************************************)
EXTENDS Integers, Sequences, FiniteSets, TLC

\* Number of caller operations explored after construction.
MaxOps == 4

\* Remote function names the caller asks for through attribute access.
Names == {"add", "mul"}

\* Values of the package argument: None or a package string.
Packages == {"None", "", "demo"}

(***************************************************************************)
(* Python values, as far as the proxy inspects them: a type tag and the    *)
(* printed form of the value.                                              *)
(***************************************************************************)
PyNone == [type |-> "NoneType", repr |-> "None"]

PyStr(s) == [type |-> "str", repr |-> s]

PyInt(s) == [type |-> "int", repr |-> s]

PyBool(s) == [type |-> "bool", repr |-> s]

PyFloat(s) == [type |-> "float", repr |-> s]

\* Containers: a list or tuple of values, a dict as its entries in order.
PyList(items) == [type |-> "list", items |-> items]

PyTuple(items) == [type |-> "tuple", items |-> items]

PyDict(entries) == [type |-> "dict", entries |-> entries]

Entry(k, v) == [key |-> k, value |-> v]

\* The ServerProxy object for the proxy's address.
PyServer == [type |-> "ServerProxy", repr |-> "http://127.0.0.1:1753"]

\* Python truth value testing of the values above (None, "" and 0 are false).
Truthy(v) ==
    /\ v.type # "NoneType"
    /\ ~(v.type = "str" /\ v.repr = "")
    /\ ~(v.type = "int" /\ v.repr = "0")
    /\ ~(v.type = "bool" /\ v.repr = "False")
    /\ ~(v.type \in {"list", "tuple"} /\ v.items = <<>>)
    /\ ~(v.type = "dict" /\ v.entries = <<>>)

\* json.loads on one JSON token.
json_loads(tok) ==
    CASE tok = "null" -> PyNone
      [] tok = "\"\"" -> PyStr("")
      [] tok = "\"boom\"" -> PyStr("boom")
      [] tok = "\"oops\"" -> PyStr("oops")
      [] tok = "\"0.2s\"" -> PyStr("0.2s")
      [] tok = "5" -> PyInt("5")
      [] tok = "true" -> PyBool("True")
      [] tok = "NaN" -> PyFloat("nan")
      [] tok = "\"a\"" -> PyStr("a")
      [] tok = "\"k\"" -> PyStr("k")
      [] tok = "\"1\"" -> PyStr("1")
      [] tok = "\"args\"" -> PyStr("args")
      [] tok = "\"kwargs\"" -> PyStr("kwargs")

(***************************************************************************)
(* What the transport hands back for one forwarded call: the empty string, *)
(* the JSON text of a response envelope {data, error, profile}, or text    *)
(* that is not JSON.                                                       *)
(***************************************************************************)
EmptyOutput == [kind |-> "empty", data |-> "", error |-> "", profile |-> ""]

GarbageOutput == [kind |-> "garbage", data |-> "", error |-> "", profile |-> ""]

Envelopes ==
    [kind : {"json"}, data : {"null", "5"}, error : {"null", "\"\"", "\"boom\"", "\"oops\""},
     profile : {"null", "\"0.2s\""}]

Outputs == {EmptyOutput, GarbageOutput} \cup Envelopes

\* The three best-effort steps of a shutdown, each of which may fail.
Faults == [shutdown : BOOLEAN, terminate : BOOLEAN, kill : BOOLEAN]

NoFaults == [shutdown |-> FALSE, terminate |-> FALSE, kill |-> FALSE]

NoResult == [status |-> "none", exc |-> "", msg |-> PyNone, value |-> PyNone]

Returned(v) == [status |-> "returned", exc |-> "", msg |-> PyNone, value |-> v]

Raised(e, m) == [status |-> "raised", exc |-> e, msg |-> m, value |-> PyNone]

\* The handle of the spawned process and the connection object.
Handle == "Popen"

Connection == "ServerProxy"

VARIABLES
    pc,          \* "new", "polling", "ready" or "failed"
    _package,    \* Proxy._package
    _process,    \* Proxy._process: "None" or Handle
    _server,     \* Proxy._server: "None" or Connection
    _function,   \* Proxy._function: "None" or the resolved remote name
    _profile,    \* Proxy._profile
    count,       \* start_server: remaining retry budget
    probes,      \* start_server: liveness probes issued by the loop so far
    scope,       \* "none", "in": whether the caller is inside a with-block
    held,        \* names for which the caller holds the returned callable
    op,          \* last operation: name, argument, events, result
    spawned,     \* processes spawned with Popen
    shutdowns,   \* remote_shutdown requests sent
    terminates,  \* terminate() calls on the owned handle
    kills,       \* kill() calls on the owned handle
    lastProfile, \* profile field of the most recent successful call
    nops,        \* caller operations so far
    envelope,    \* one call envelope on its way: args, kwargs, istring, decoded
    apc,                   \* NetworkArtist: "none" or "made"
    _nodes,                \* NetworkArtist._nodes: the node selection or None
    _edges,                \* NetworkArtist._edges: the edge selection or None
    show_nodes,            \* NetworkArtist.show_nodes
    show_edges,            \* NetworkArtist.show_edges
    _nodecollection,       \* the cached sub-groupings: "None" or the grouping
    _edgecollection,
    _nodelabelcollection,
    _edgelabelcollection,
    created,               \* host: groupings created, by name
    objects,               \* host: visuals in each grouping, by name
    aop,                   \* last artist operation: name, text, events, result
    ndraws                 \* artist operations so far

\* The variables of the proxy object and its collaborators.
proxyVars == <<pc, _package, _process, _server, _function, _profile, count, probes,
               scope, held, op, spawned, shutdowns, terminates, kills, lastProfile,
               nops>>

\* The variables of the NetworkArtist and of the host application.
artistVars == <<apc, _nodes, _edges, show_nodes, show_edges, _nodecollection,
                _edgecollection, _nodelabelcollection, _edgelabelcollection,
                created, objects, aop, ndraws>>

\* The variables no operation of the proxy object touches.
otherVars == <<envelope, artistVars>>

vars == <<proxyVars, otherVars>>

\* count = 100 in start_server.
RetryBudget == 100

\* One call made on a collaborator (connection, process handle) and whether
\* it completed without raising.
Ev(c, ok) == [call |-> c, ok |-> ok]

RECURSIVE Calls(_, _)
\* How many calls named c a sequence of events holds.
Calls(events, c) ==
    IF events = <<>> THEN 0
    ELSE (IF Head(events).call = c THEN 1 ELSE 0) + Calls(Tail(events), c)

\* Whether a sequence of events holds a call named c that completed.
Completed(events, c) == \E k \in 1..Len(events) : events[k] = Ev(c, TRUE)

\* try_reconnect without the except clause: the failure of ping() escapes.
try_reconnect_unguarded(probeOk) ==
    [events |-> <<Ev("ping", probeOk)>>,
     raised |-> IF probeOk THEN "" ELSE "ConnectionRefusedError",
     server |-> IF probeOk THEN Connection ELSE "None"]

(***************************************************************************)
(* Proxy.try_reconnect: ServerProxy(address), ping() under a bare except.  *)
(***************************************************************************)
try_reconnect(probeOk) ==
    [events |-> <<Ev("ping", probeOk)>>,
     raised |-> "",
     server |-> IF probeOk THEN Connection ELSE "None"]

(***************************************************************************)
(* Proxy.start_server up to the loop: Popen of the service module (which   *)
(* raises when the interpreter cannot be executed), then count = 100.      *)
(***************************************************************************)
start_server(popenOk) ==
    IF popenOk
    THEN [events |-> <<Ev("Popen", TRUE)>>, raised |-> "",
          process |-> Handle, count |-> RetryBudget]
    ELSE [events |-> <<Ev("Popen", FALSE)>>, raised |-> "OSError",
          process |-> "None", count |-> 0]

\* The loop of start_server giving up one probe early.
ping_loop_short(c, probeOk) ==
    IF probeOk
    THEN [count |-> c, done |-> TRUE, success |-> TRUE]
    ELSE [count |-> c - 1, done |-> (c - 1 <= 1), success |-> FALSE]

(***************************************************************************)
(* One iteration of the while loop of start_server, with the test of the   *)
(* loop condition that follows it: a probe that succeeds breaks the loop   *)
(* with success, a probe that fails costs one unit of the budget.          *)
(***************************************************************************)
ping_loop(c, probeOk) ==
    IF probeOk
    THEN [count |-> c, done |-> TRUE, success |-> TRUE]
    ELSE [count |-> c - 1, done |-> (c - 1 = 0), success |-> FALSE]

\* A constructor that starts a server whatever try_reconnect returned.
__init__always_start(package, probeOk, popenOk) ==
    LET r == try_reconnect(probeOk)
        s == start_server(popenOk)
    IN  [events |-> r.events \o s.events, raised |-> s.raised, server |-> "None",
         process |-> s.process, count |-> s.count, polling |-> (s.raised = "")]

(***************************************************************************)
(* Proxy.__init__: reconnect first, start a server only without a          *)
(* connection.                                                             *)
(***************************************************************************)
__init__(package, probeOk, popenOk) ==
    LET r == try_reconnect(probeOk)
        s == start_server(popenOk)
    IN  IF r.raised # ""
        THEN [events |-> r.events, raised |-> r.raised, server |-> "None",
              process |-> "None", count |-> 0, polling |-> FALSE]
        ELSE IF r.server # "None"
        THEN [events |-> r.events, raised |-> "", server |-> r.server,
              process |-> "None", count |-> 0, polling |-> FALSE]
        ELSE [events |-> r.events \o s.events, raised |-> s.raised, server |-> "None",
              process |-> s.process, count |-> s.count, polling |-> (s.raised = "")]

\* _terminate_process with kill() outside any try.
_terminate_process_unguarded(process, f) ==
    IF process = "None"
    THEN [events |-> <<>>, raised |-> ""]
    ELSE [events |-> <<Ev("terminate", ~f.terminate), Ev("kill", ~f.kill)>>,
          raised |-> IF f.kill THEN "OSError" ELSE ""]

(***************************************************************************)
(* Proxy._terminate_process: nothing without a handle; otherwise           *)
(* terminate() and kill(), each under its own bare except.                 *)
(***************************************************************************)
_terminate_process(process, f) ==
    IF process = "None"
    THEN [events |-> <<>>, raised |-> ""]
    ELSE [events |-> <<Ev("terminate", ~f.terminate), Ev("kill", ~f.kill)>>,
          raised |-> ""]

\* stop_server that leaves a server it did not spawn alone.
stop_server_owned_only(process, f) ==
    LET t == _terminate_process(process, f)
    IN  IF process = "None"
        THEN [events |-> <<>>, raised |-> ""]
        ELSE [events |-> <<Ev("remote_shutdown", ~f.shutdown)>> \o t.events,
              raised |-> t.raised]

(***************************************************************************)
(* Proxy.stop_server: remote_shutdown() under a bare except, then          *)
(* _terminate_process.                                                     *)
(***************************************************************************)
stop_server(process, f) ==
    LET t == _terminate_process(process, f)
    IN  [events |-> <<Ev("remote_shutdown", ~f.shutdown)>> \o t.events,
         raised |-> t.raised]

\* __exit__ that stops the server only when the block ended without exception.
__exit__on_success(process, path, f) ==
    IF path = "exception"
    THEN [events |-> <<>>, raised |-> ""]
    ELSE stop_server(process, f)

\* Proxy.__exit__(*args): stop_server whatever the exit path.
__exit__(process, path, f) == stop_server(process, f)

\* Proxy.__getattr__: the name, prefixed by the package when it is truthy.
__getattr__(package, name) ==
    IF package # "None" /\ package # "" THEN package \o "." \o name ELSE name

\* The envelope of a response, parsed.
Parsed(ostring) ==
    [data |-> json_loads(ostring.data),
     error |-> json_loads(ostring.error),
     profile |-> json_loads(ostring.profile)]

\* What proxy does with an answer that is not an envelope.
NotEnvelope(ostring, profile) ==
    IF ostring.kind = "empty"
    THEN [events |-> <<Ev("send", TRUE)>>,
          result |-> Raised("RPCServerError", PyStr("No output was generated.")),
          profile |-> profile]
    ELSE [events |-> <<Ev("send", TRUE), Ev("json.loads", FALSE)>>,
          result |-> Raised("ValueError", PyNone),
          profile |-> profile]

\* proxy re-raising a transport failure without stopping the server.
proxy_no_stop(function, process, profile, transportOk, ostring, f) ==
    IF ~transportOk
    THEN [events |-> <<Ev("send", FALSE)>>,
          result |-> Raised("TransportError", PyNone),
          profile |-> profile]
    ELSE IF ostring.kind # "json"
    THEN NotEnvelope(ostring, profile)
    ELSE LET result == Parsed(ostring)
         IN  IF Truthy(result.error)
             THEN [events |-> <<Ev("send", TRUE), Ev("json.loads", TRUE)>>,
                   result |-> Raised("RPCServerError", result.error),
                   profile |-> profile]
             ELSE [events |-> <<Ev("send", TRUE), Ev("json.loads", TRUE)>>,
                   result |-> Returned(result.data),
                   profile |-> result.profile]

\* proxy returning the data whenever there is some, and looking at the error
\* only otherwise.
proxy_data_first(function, process, profile, transportOk, ostring, f) ==
    IF ~transportOk
    THEN LET s == stop_server(process, f)
         IN  [events |-> <<Ev("send", FALSE)>> \o s.events,
              result |-> Raised(IF s.raised # "" THEN s.raised ELSE "TransportError",
                                PyNone),
              profile |-> profile]
    ELSE IF ostring.kind # "json"
    THEN NotEnvelope(ostring, profile)
    ELSE LET result == Parsed(ostring)
         IN  IF Truthy(result.error) /\ ~Truthy(result.data)
             THEN [events |-> <<Ev("send", TRUE), Ev("json.loads", TRUE)>>,
                   result |-> Raised("RPCServerError", result.error),
                   profile |-> profile]
             ELSE [events |-> <<Ev("send", TRUE), Ev("json.loads", TRUE)>>,
                   result |-> Returned(result.data),
                   profile |-> result.profile]

\* proxy recording the profile before it tests the error field.
proxy_profile_early(function, process, profile, transportOk, ostring, f) ==
    IF ~transportOk
    THEN LET s == stop_server(process, f)
         IN  [events |-> <<Ev("send", FALSE)>> \o s.events,
              result |-> Raised(IF s.raised # "" THEN s.raised ELSE "TransportError",
                                PyNone),
              profile |-> profile]
    ELSE IF ostring.kind # "json"
    THEN NotEnvelope(ostring, profile)
    ELSE LET result == Parsed(ostring)
         IN  IF Truthy(result.error)
             THEN [events |-> <<Ev("send", TRUE), Ev("json.loads", TRUE)>>,
                   result |-> Raised("RPCServerError", result.error),
                   profile |-> result.profile]
             ELSE [events |-> <<Ev("send", TRUE), Ev("json.loads", TRUE)>>,
                   result |-> Returned(result.data),
                   profile |-> result.profile]

\* proxy handing the output to json.loads before it tests it for emptiness.
proxy_parse_first(function, process, profile, transportOk, ostring, f) ==
    IF ~transportOk
    THEN LET s == stop_server(process, f)
         IN  [events |-> <<Ev("send", FALSE)>> \o s.events,
              result |-> Raised(IF s.raised # "" THEN s.raised ELSE "TransportError",
                                PyNone),
              profile |-> profile]
    ELSE IF ostring.kind # "json"
    THEN [events |-> <<Ev("send", TRUE), Ev("json.loads", FALSE)>>,
          result |-> Raised("ValueError", PyNone),
          profile |-> profile]
    ELSE LET result == Parsed(ostring)
         IN  IF Truthy(result.error)
             THEN [events |-> <<Ev("send", TRUE), Ev("json.loads", TRUE)>>,
                   result |-> Raised("RPCServerError", result.error),
                   profile |-> profile]
             ELSE [events |-> <<Ev("send", TRUE), Ev("json.loads", TRUE)>>,
                   result |-> Returned(result.data),
                   profile |-> result.profile]

\* proxy stopping the server on every failure of a call, not only on a
\* failure of the transport.
proxy_stop_on_error(function, process, profile, transportOk, ostring, f) ==
    IF ~transportOk
    THEN LET s == stop_server(process, f)
         IN  [events |-> <<Ev("send", FALSE)>> \o s.events,
              result |-> Raised(IF s.raised # "" THEN s.raised ELSE "TransportError",
                                PyNone),
              profile |-> profile]
    ELSE IF ostring.kind # "json"
    THEN NotEnvelope(ostring, profile)
    ELSE LET result == Parsed(ostring)
             s == stop_server(process, f)
         IN  IF Truthy(result.error)
             THEN [events |-> <<Ev("send", TRUE), Ev("json.loads", TRUE)>> \o s.events,
                   result |-> Raised("RPCServerError", result.error),
                   profile |-> profile]
             ELSE [events |-> <<Ev("send", TRUE), Ev("json.loads", TRUE)>>,
                   result |-> Returned(result.data),
                   profile |-> result.profile]

(***************************************************************************)
(* Proxy.proxy: send through self._function; on a transport failure        *)
(* stop_server and re-raise; then the empty-output test, json.loads, the   *)
(* error test, the profile assignment and the returned data.               *)
(***************************************************************************)
proxy(function, process, profile, transportOk, ostring, f) ==
    IF ~transportOk
    THEN LET s == stop_server(process, f)
         IN  [events |-> <<Ev("send", FALSE)>> \o s.events,
              result |-> Raised(IF s.raised # "" THEN s.raised ELSE "TransportError",
                                PyNone),
              profile |-> profile]
    ELSE IF ostring.kind # "json"
    THEN NotEnvelope(ostring, profile)
    ELSE LET result == Parsed(ostring)
         IN  IF Truthy(result.error)
             THEN [events |-> <<Ev("send", TRUE), Ev("json.loads", TRUE)>>,
                   result |-> Raised("RPCServerError", result.error),
                   profile |-> profile]
             ELSE [events |-> <<Ev("send", TRUE), Ev("json.loads", TRUE)>>,
                   result |-> Returned(result.data),
                   profile |-> result.profile]

NoOutput == [kind |-> "none", data |-> "", error |-> "", profile |-> ""]

Op(name, arg, events, result, forwarded, output) ==
    [name |-> name, arg |-> arg, events |-> events, result |-> result,
     forwarded |-> forwarded, output |-> output]

(***************************************************************************)
(* The call envelope.  JSON text is kept as its parse tree: an atom with   *)
(* its token, an array with its items, an object with its members.         *)
(***************************************************************************)
JsonAtom(tok) == [j |-> "atom", text |-> tok]

JsonArray(items) == [j |-> "array", items |-> items]

JsonObject(members) == [j |-> "object", members |-> members]

Member(name, value) == [name |-> name, value |-> value]

\* The JSON token json.dumps writes for a value that is not a container.
json_token(v) ==
    CASE v.type = "NoneType" -> "null"
      [] v.type = "bool" -> IF v.repr = "True" THEN "true" ELSE "false"
      [] v.type = "int" -> v.repr
      [] v.type = "float" -> IF v.repr = "nan" THEN "NaN" ELSE v.repr
      [] v.type = "str" -> "\"" \o v.repr \o "\""

\* The member name json.dumps writes for a dict key: a str key as it is, the
\* other keys it accepts (int, float, bool, None) as the string of their token.
json_key(k) ==
    IF k.type = "str" THEN json_token(k) ELSE "\"" \o json_token(k) \o "\""

RECURSIVE json_dumps(_)
\* json.dumps(value, cls=DataEncoder) on built-in values: lists and tuples
\* become arrays, dicts become objects.
json_dumps(v) ==
    CASE v.type \in {"list", "tuple"} ->
            JsonArray([i \in 1..Len(v.items) |-> json_dumps(v.items[i])])
      [] v.type = "dict" ->
            JsonObject([i \in 1..Len(v.entries) |->
                           Member(json_key(v.entries[i].key),
                                  json_dumps(v.entries[i].value))])
      [] OTHER -> JsonAtom(json_token(v))

RECURSIVE json_loads_doc(_)
\* json.loads on a whole document: arrays become lists, objects become dicts
\* with str keys.
json_loads_doc(d) ==
    CASE d.j = "array" ->
            PyList([i \in 1..Len(d.items) |-> json_loads_doc(d.items[i])])
      [] d.j = "object" ->
            PyDict([i \in 1..Len(d.members) |->
                       Entry(json_loads(d.members[i].name),
                             json_loads_doc(d.members[i].value))])
      [] OTHER -> json_loads(d.text)

\* idict of a call that passes no keyword arguments along.
idict_args_only(args, kwargs) ==
    PyDict(<<Entry(PyStr("args"), PyTuple(args)),
             Entry(PyStr("kwargs"), PyDict(<<>>))>>)

\* idict = {'args': args, 'kwargs': kwargs} in Proxy.proxy.
idict(args, kwargs) ==
    PyDict(<<Entry(PyStr("args"), PyTuple(args)),
             Entry(PyStr("kwargs"), PyDict(kwargs))>>)

\* The value a dict holds for a str key (the key is present).
GetItem(d, name) ==
    LET i == CHOOSE i \in 1..Len(d.entries) : d.entries[i].key = PyStr(name)
    IN  d.entries[i].value

\* Number of positional arguments of the calls explored.
MaxArgs == 2

\* Values that are not containers.
Atoms == {PyNone, PyBool("True"), PyInt("5"), PyFloat("nan"), PyStr("a")}

\* Keys of the mappings passed as arguments.
Keys == {PyStr("k"), PyInt("1")}

\* The values passed as arguments: atoms, lists of atoms, mappings to atoms.
ArgValues ==
    Atoms
    \cup {PyList(<<>>), PyList(<<PyInt("5"), PyStr("a")>>)}
    \cup {PyList(<<a>>) : a \in Atoms}
    \cup {PyDict(<<>>)}
    \cup {PyDict(<<Entry(k, a)>>) : k \in Keys, a \in Atoms}

\* Positional arguments: tuples of at most MaxArgs values.
ArgTuples == UNION {[1..n -> ArgValues] : n \in 0..MaxArgs}

\* Keyword arguments: the entries of a dict with str keys.
KwargDicts == {<<>>} \cup {<<Entry(PyStr("k"), v)>> : v \in ArgValues}

NoDoc == JsonAtom("")

NoEnvelope ==
    [stage |-> "none", args |-> <<>>, kwargs |-> <<>>, istring |-> NoDoc,
     out_args |-> <<>>, out_kwargs |-> <<>>]

(***************************************************************************)
(* NetworkArtist (src/src/compas_blender/artists/networkartist.py): draws  *)
(* the nodes and edges of a network, and labels for them, into four        *)
(* sub-groupings of a host collection.                                     *)
(***************************************************************************)

\* Number of artist operations explored after construction.
MaxDraws == 3

\* The network drawn: its nodes and edges, in the order the network lists them.
AllNodes == <<10, 20, 30>>

AllEdges == <<(<<10, 20>>), (<<20, 30>>)>>

\* A selection: None, or the list given.
NoSelection == [given |-> FALSE, items |-> <<>>]

Selection(items) == [given |-> TRUE, items |-> items]

NodeSelections == {NoSelection, Selection(<<30, 10>>), Selection(AllNodes)}

EdgeSelections == {NoSelection, Selection(<<(<<20, 30>>)>>)}

\* The names of the four sub-groupings.
Groupings == {"Nodes", "Edges", "NodeLabels", "EdgeLabels"}

\* Values passed as the text argument of draw_nodelabels and draw_edgelabels.
NodeTexts ==
    {PyNone, PyStr("key"), PyStr("index"), PyStr(""), PyStr("name"), PyInt("0"),
     PyList(<<>>), PyDict(<<>>), PyDict(<<Entry(20, "B")>>)}

EdgeTexts ==
    {PyNone, PyStr("key"), PyStr(""), PyInt("0"), PyDict(<<>>),
     PyDict(<<Entry(<<20, 30>>, "e")>>)}

\* The nodes property of the base artist: a selection of None stands for all
\* nodes of the network, resolved and kept when the property is read.
nodes(sel) == IF sel.given THEN sel ELSE Selection(AllNodes)

\* The edges property of the base artist, likewise.
edges(sel) == IF sel.given THEN sel ELSE Selection(AllEdges)

\* compas_blender.create_collection(name, parent): the grouping of that name.
create_collection(name) == name

\* A grouping property that asks the host for its grouping on every access.
nodecollection_uncached(cache) ==
    [collection |-> create_collection("Nodes"), events |-> <<"create_collection">>]

\* NetworkArtist.nodecollection
nodecollection(cache) ==
    IF cache = "None"
    THEN [collection |-> create_collection("Nodes"), events |-> <<"create_collection">>]
    ELSE [collection |-> cache, events |-> <<>>]

\* NetworkArtist.edgecollection
edgecollection(cache) ==
    IF cache = "None"
    THEN [collection |-> create_collection("Edges"), events |-> <<"create_collection">>]
    ELSE [collection |-> cache, events |-> <<>>]

\* NetworkArtist.nodelabelcollection
nodelabelcollection(cache) ==
    IF cache = "None"
    THEN [collection |-> create_collection("NodeLabels"), events |-> <<"create_collection">>]
    ELSE [collection |-> cache, events |-> <<>>]

\* NetworkArtist.edgelabelcollection
edgelabelcollection(cache) ==
    IF cache = "None"
    THEN [collection |-> create_collection("EdgeLabels"), events |-> <<"create_collection">>]
    ELSE [collection |-> cache, events |-> <<>>]

\* The property of the grouping named name.
collection_of(name, cache) ==
    CASE name = "Nodes" -> nodecollection(cache)
      [] name = "Edges" -> edgecollection(cache)
      [] name = "NodeLabels" -> nodelabelcollection(cache)
      [] name = "EdgeLabels" -> edgelabelcollection(cache)

\* One label: the entity it belongs to and its text.
Label(key, text) == [key |-> key, text |-> text]

IsStr(text, s) == text.type = "str" /\ text.repr = s

\* The text of the labels in draw_nodelabels: what node_text holds after the
\* if/elif chain, the selection as the nodes property left it, and the
\* exception raised, if any.
node_text(text, sel) ==
    IF ~Truthy(text) \/ IsStr(text, "key")
    THEN [raised |-> "", sel |-> nodes(sel),
          labels |-> [i \in 1..Len(nodes(sel).items) |->
                         Label(nodes(sel).items[i], ToString(nodes(sel).items[i]))]]
    ELSE IF IsStr(text, "index")
    THEN IF sel.given
         THEN [raised |-> "", sel |-> sel,
               labels |-> [i \in 1..Len(sel.items) |->
                              Label(sel.items[i], ToString(i - 1))]]
         ELSE [raised |-> "TypeError", sel |-> sel, labels |-> <<>>]
    ELSE IF text.type = "dict"
    THEN [raised |-> "", sel |-> sel,
          labels |-> [i \in 1..Len(text.entries) |->
                         Label(text.entries[i].key, text.entries[i].value)]]
    ELSE [raised |-> "NotImplementedError", sel |-> sel, labels |-> <<>>]

\* The text of the labels in draw_edgelabels.
edge_text(text, sel) ==
    IF text.type = "NoneType"
    THEN [raised |-> "", sel |-> edges(sel),
          labels |-> [i \in 1..Len(edges(sel).items) |->
                         Label(edges(sel).items[i],
                               ToString(edges(sel).items[i][1]) \o "-"
                                   \o ToString(edges(sel).items[i][2]))]]
    ELSE IF text.type = "dict"
    THEN [raised |-> "", sel |-> sel,
          labels |-> [i \in 1..Len(text.entries) |->
                         Label(text.entries[i].key, text.entries[i].value)]]
    ELSE [raised |-> "NotImplementedError", sel |-> sel, labels |-> <<>>]

\* draw() drawing the edges whatever show_edges says.
draw_edges_always(shownodes, showedges) ==
    <<"clear">> \o (IF shownodes THEN <<"draw_nodes">> ELSE <<>>) \o <<"draw_edges">>

\* NetworkArtist.draw: the calls it makes on the artist, in order.
draw(shownodes, showedges) ==
    <<"clear">>
        \o (IF shownodes THEN <<"draw_nodes">> ELSE <<>>)
        \o (IF showedges THEN <<"draw_edges">> ELSE <<>>)

AOp(name, text, events, raised, labels) ==
    [name |-> name, text |-> text, events |-> events, raised |-> raised,
     labels |-> labels]

\* No NetworkArtist yet; the host has none of the groupings.
ArtistInit ==
    /\ apc = "none"
    /\ _nodes = NoSelection
    /\ _edges = NoSelection
    /\ show_nodes = TRUE
    /\ show_edges = TRUE
    /\ _nodecollection = "None"
    /\ _edgecollection = "None"
    /\ _nodelabelcollection = "None"
    /\ _edgelabelcollection = "None"
    /\ created = [g \in Groupings |-> 0]
    /\ objects = [g \in Groupings |-> 0]
    /\ aop = AOp("none", PyNone, <<>>, "", <<>>)
    /\ ndraws = 0

\* The fields of a Proxy before its constructor has run.
ProxyInit ==
    /\ pc = "new"
    /\ _package = "None"
    /\ _process = "None"
    /\ _server = "None"
    /\ _function = "None"
    /\ _profile = PyNone
    /\ count = 0
    /\ probes = 0
    /\ scope = "none"
    /\ held = {}
    /\ op = Op("none", "", <<>>, NoResult, "", NoOutput)
    /\ spawned = 0
    /\ shutdowns = 0
    /\ terminates = 0
    /\ kills = 0
    /\ lastProfile = PyNone
    /\ nops = 0

Init ==
    /\ ProxyInit
    /\ envelope = NoEnvelope
    /\ ArtistInit

\* The effect of an operation's calls on the counters of the collaborators.
Account(events) ==
    /\ spawned' = spawned + (IF Completed(events, "Popen") THEN 1 ELSE 0)
    /\ shutdowns' = shutdowns + Calls(events, "remote_shutdown")
    /\ terminates' = terminates + Calls(events, "terminate")
    /\ kills' = kills + Calls(events, "kill")

\* Proxy(package, ...): the constructor, up to the polling loop.
Construct(package, probeOk, popenOk) ==
    /\ pc = "new"
    /\ LET i == __init__(package, probeOk, popenOk)
       IN  /\ pc' = IF i.raised # "" THEN "failed"
                    ELSE IF i.polling THEN "polling" ELSE "ready"
           /\ _package' = package
           /\ _process' = i.process
           /\ _server' = i.server
           /\ count' = i.count
           /\ op' = Op("init", package, i.events,
                       IF i.raised # "" THEN Raised(i.raised, PyNone)
                       ELSE IF i.polling THEN NoResult ELSE Returned(PyNone),
                       "", NoOutput)
           /\ Account(i.events)
    /\ UNCHANGED <<_function, _profile, probes, scope, held, lastProfile, nops>>
    /\ UNCHANGED otherVars

\* The polling loop terminating and killing the spawned process when it gives up.
Poll_cleaning_up(probeOk) ==
    /\ pc = "polling"
    /\ LET l == ping_loop(count, probeOk)
       IN  /\ count' = IF l.done THEN 0 ELSE l.count
           /\ probes' = IF l.done THEN 0 ELSE probes + 1
           /\ pc' = IF ~l.done THEN "polling"
                    ELSE IF l.success THEN "ready" ELSE "failed"
           /\ _server' = IF l.done /\ l.success THEN Connection ELSE _server
           /\ op' = [op EXCEPT !.events = SubSeq(op.events, 1, 2) \o <<Ev("ping", probeOk)>>,
                               !.result =
                        IF ~l.done THEN NoResult
                        ELSE IF l.success THEN Returned(PyNone)
                        ELSE Raised("RPCServerError",
                                    PyStr("The server is no available."))]
           /\ _process' = IF l.done /\ ~l.success THEN "None" ELSE _process
           /\ terminates' = terminates + (IF l.done /\ ~l.success THEN 1 ELSE 0)
           /\ kills' = kills + (IF l.done /\ ~l.success THEN 1 ELSE 0)
    /\ UNCHANGED <<_package, _function, _profile, scope, held,
                   spawned, shutdowns, lastProfile, nops>>
    /\ UNCHANGED otherVars

(***************************************************************************)
(* One iteration of the polling loop of start_server.  The iteration that  *)
(* ends the loop also ends start_server and the constructor: the server is *)
(* returned and assigned, or RPCServerError is raised, and the locals of   *)
(* start_server (count) are gone.                                          *)
(***************************************************************************)
Poll(probeOk) ==
    /\ pc = "polling"
    /\ LET l == ping_loop(count, probeOk)
       IN  /\ count' = IF l.done THEN 0 ELSE l.count
           /\ probes' = IF l.done THEN 0 ELSE probes + 1
           /\ pc' = IF ~l.done THEN "polling"
                    ELSE IF l.success THEN "ready" ELSE "failed"
           /\ _server' = IF l.done /\ l.success THEN Connection ELSE _server
           /\ op' = [op EXCEPT !.events = SubSeq(op.events, 1, 2) \o <<Ev("ping", probeOk)>>,
                               !.result =
                        IF ~l.done THEN NoResult
                        ELSE IF l.success THEN Returned(PyNone)
                        ELSE Raised("RPCServerError",
                                    PyStr("The server is no available."))]
    /\ UNCHANGED <<_package, _process, _function, _profile, scope, held,
                   spawned, shutdowns, terminates, kills, lastProfile, nops>>
    /\ UNCHANGED otherVars

\* with proxy: ... (Proxy.__enter__ returns self).
EnterScope ==
    /\ pc = "ready"
    /\ scope = "none"
    /\ nops < MaxOps
    /\ scope' = "in"
    /\ nops' = nops + 1
    /\ op' = Op("enter", "", <<>>, Returned(PyNone), "", NoOutput)
    /\ UNCHANGED <<pc, _package, _process, _server, _function, _profile, count,
                   probes, held, spawned, shutdowns, terminates, kills, lastProfile>>
    /\ UNCHANGED otherVars

ExitPaths == {"normal", "exception", "return"}

\* Leaving the with-block on one of its exit paths runs Proxy.__exit__.
ExitScope(path, f) ==
    /\ pc = "ready"
    /\ scope = "in"
    /\ nops < MaxOps
    /\ LET x == __exit__(_process, path, f)
       IN  /\ op' = Op("exit", path, x.events,
                       IF x.raised # "" THEN Raised(x.raised, PyNone)
                       ELSE Returned(PyNone), "", NoOutput)
           /\ Account(x.events)
    /\ scope' = "none"
    /\ nops' = nops + 1
    /\ UNCHANGED <<pc, _package, _process, _server, _function, _profile, count,
                   probes, held, lastProfile>>
    /\ UNCHANGED otherVars

\* proxy.try_reconnect() called by the caller: the result goes to the caller,
\* no field of the proxy is assigned.
TryReconnect(probeOk) ==
    /\ pc = "ready"
    /\ nops < MaxOps
    /\ LET r == try_reconnect(probeOk)
       IN  /\ op' = Op("try_reconnect", "", r.events,
                       IF r.raised # "" THEN Raised(r.raised, PyNone)
                       ELSE Returned(IF r.server = "None" THEN PyNone ELSE PyServer),
                       "", NoOutput)
           /\ Account(r.events)
    /\ nops' = nops + 1
    /\ UNCHANGED <<pc, _package, _process, _server, _function, _profile, count,
                   probes, scope, held, lastProfile>>
    /\ UNCHANGED otherVars

\* proxy.stop_server() called by the caller.
StopServer(f) ==
    /\ pc = "ready"
    /\ nops < MaxOps
    /\ LET s == stop_server(_process, f)
       IN  /\ op' = Op("stop_server", "", s.events,
                       IF s.raised # "" THEN Raised(s.raised, PyNone)
                       ELSE Returned(PyNone), "", NoOutput)
           /\ Account(s.events)
    /\ nops' = nops + 1
    /\ UNCHANGED <<pc, _package, _process, _server, _function, _profile, count,
                   probes, scope, held, lastProfile>>
    /\ UNCHANGED otherVars

\* proxy.<name>: attribute access that falls through to Proxy.__getattr__,
\* which stores the resolved function and returns the bound method proxy.
GetAttr(name) ==
    /\ pc = "ready"
    /\ nops < MaxOps
    /\ _function' = __getattr__(_package, name)
    /\ held' = held \cup {name}
    /\ op' = Op("getattr", name, <<>>, Returned(PyNone), "", NoOutput)
    /\ nops' = nops + 1
    /\ UNCHANGED <<pc, _package, _process, _server, _profile, count, probes,
                   scope, spawned, shutdowns, terminates, kills, lastProfile>>
    /\ UNCHANGED otherVars

\* Calling the callable the caller obtained by accessing the attribute name,
\* when the transport answers with ostring.
Call(name, ostring) ==
    /\ pc = "ready"
    /\ nops < MaxOps
    /\ name \in held
    /\ LET p == proxy(_function, _process, _profile, TRUE, ostring, NoFaults)
       IN  /\ op' = Op("call", name, p.events, p.result, _function, ostring)
           /\ _profile' = p.profile
           /\ lastProfile' = IF p.result.status = "returned"
                             THEN json_loads(ostring.profile) ELSE lastProfile
           /\ Account(p.events)
    /\ nops' = nops + 1
    /\ UNCHANGED <<pc, _package, _process, _server, _function, count, probes,
                   scope, held>>
    /\ UNCHANGED otherVars

\* The same call when the transport raises while the envelope is sent.
CallFails(name, f) ==
    /\ pc = "ready"
    /\ nops < MaxOps
    /\ name \in held
    /\ LET p == proxy(_function, _process, _profile, FALSE, NoOutput, f)
       IN  /\ op' = Op("call", name, p.events, p.result, _function, NoOutput)
           /\ _profile' = p.profile
           /\ Account(p.events)
    /\ nops' = nops + 1
    /\ UNCHANGED <<pc, _package, _process, _server, _function, count, probes,
                   scope, held, lastProfile>>
    /\ UNCHANGED otherVars

Next ==
    \/ \E package \in Packages, probeOk \in BOOLEAN, popenOk \in BOOLEAN :
           Construct(package, probeOk, popenOk)
    \/ \E probeOk \in BOOLEAN : Poll(probeOk)
    \/ EnterScope
    \/ \E path \in ExitPaths, f \in Faults : ExitScope(path, f)
    \/ \E probeOk \in BOOLEAN : TryReconnect(probeOk)
    \/ \E f \in Faults : StopServer(f)
    \/ \E name \in Names : GetAttr(name)
    \/ \E name \in Names, ostring \in Outputs : Call(name, ostring)
    \/ \E name \in Names, f \in Faults : CallFails(name, f)

Spec == Init /\ [][Next]_vars

\* The polling loop of start_server runs to its end once entered.
LiveSpec == Spec /\ WF_vars(\E probeOk \in BOOLEAN : Poll(probeOk))

(***************************************************************************)
(* The call envelope on its own: a call with some positional and keyword   *)
(* arguments is serialized by Proxy.proxy and deserialized by the service  *)
(* that receives it.                                                       *)
(***************************************************************************)
EnvelopeInit ==
    /\ ProxyInit
    /\ ArtistInit
    /\ envelope \in [stage : {"called"}, args : ArgTuples, kwargs : KwargDicts,
                     istring : {NoDoc}, out_args : {<<>>}, out_kwargs : {<<>>}]

\* istring = json.dumps(idict, cls=DataEncoder) in Proxy.proxy.
Serialize ==
    /\ envelope.stage = "called"
    /\ envelope' = [envelope EXCEPT
                       !.stage = "sent",
                       !.istring = json_dumps(idict(envelope.args, envelope.kwargs))]
    /\ UNCHANGED <<proxyVars, artistVars>>

\* The receiving service: json.loads(istring), then the args and kwargs
\* members of the envelope.
Deserialize ==
    /\ envelope.stage = "sent"
    /\ LET received == json_loads_doc(envelope.istring)
       IN  envelope' = [envelope EXCEPT
                           !.stage = "received",
                           !.out_args = GetItem(received, "args").items,
                           !.out_kwargs = GetItem(received, "kwargs").entries]
    /\ UNCHANGED <<proxyVars, artistVars>>

EnvelopeNext == Serialize \/ Deserialize

EnvelopeSpec == EnvelopeInit /\ [][EnvelopeNext]_vars

TypeOK ==
    /\ pc \in {"new", "polling", "ready", "failed"}
    /\ _package \in Packages
    /\ _process \in {"None", Handle}
    /\ _server \in {"None", Connection}
    /\ count \in 0..RetryBudget
    /\ scope \in {"none", "in"}
    /\ held \subseteq Names
    /\ nops \in 0..MaxOps

(***************************************************************************)
(* Properties of the proxy.                                                *)
(***************************************************************************)

\* The proxy owns the process it spawned.
Owned == _process # "None"

\* The last operation was a remote call whose transport raised.
TransportFailed == op.name = "call" /\ op.events[1] = Ev("send", FALSE)

\* The last operation was a remote call answered with a response envelope.
Answered == op.name = "call" /\ op.output.kind = "json"

\* A JSON token that holds something: neither null nor the empty string.
Populated(tok) == tok \notin {"null", "\"\""}

\* The calls of a sequence of events, in order.
CallsOf(events) == [k \in 1..Len(events) |-> events[k].call]

\* C1: a process handle owned by the proxy is terminated exactly once: it is
\* terminated when the proxy is disposed (stop_server, with-scope exit) or a
\* call fails on the transport, and never a second time by a later
\* stop_server or a later failing call.
C1_TerminatedExactlyOnce ==
    /\ terminates <= 1
    /\ (Owned /\ shutdowns > 0) => terminates = 1

\* C2: construction tries try_reconnect first and runs start_server only when
\* that yields no connection: once construction has completed the proxy holds
\* a process handle if and only if the initial liveness probe failed, and a
\* successful probe spawns no process.
C2_ReconnectBeforeStart ==
    /\ op.name = "init" =>
          /\ op.events[1].call = "ping"
          /\ \A k \in 1..Len(op.events) :
                op.events[k].call = "Popen" => k = 2 /\ ~op.events[1].ok
    /\ (pc = "ready" /\ op.name = "init") =>
          /\ Owned <=> ~op.events[1].ok
          /\ op.events[1].ok => spawned = 0 /\ _server = Connection
    /\ pc = "ready" => (Owned <=> spawned = 1)

C2_Witness ==
    /\ pc = "ready"
    /\ op.name = "init"
    /\ op.events = <<Ev("ping", TRUE)>>
    /\ ~Owned

\* C3: start_server ends after at most 100 liveness probes: it returns the
\* connection at the first probe that succeeds, and it raises the
\* server-unavailable RPCServerError if and only if all 100 probes fail.
C3_StartServerBudget ==
    /\ [][pc = "polling" =>
            LET ping == op'.events[Len(op'.events)]
                unavailable == Raised("RPCServerError", PyStr("The server is no available."))
            IN  /\ probes < 100
                /\ ping.call = "ping"
                /\ ping.ok => /\ pc' = "ready"
                              /\ _server' = Connection
                              /\ op'.result = Returned(PyNone)
                /\ ~ping.ok => pc' \in {"polling", "failed"} /\ _server' = "None"
                /\ pc' = "polling" => probes' = probes + 1
                /\ (pc' = "failed" /\ op'.result = unavailable)
                      <=> (~ping.ok /\ probes = 99)
                /\ op'.result.status = "raised" => op'.result = unavailable]_vars
    /\ (pc = "polling") ~> (pc \in {"ready", "failed"})

C3_Witness ==
    /\ pc = "failed"
    /\ op.name = "init"
    /\ op.result = Raised("RPCServerError", PyStr("The server is no available."))
    /\ Owned

\* C4: when the transport fails while a remote call is sent, the proxy runs
\* the whole shutdown (remote shutdown request, then terminate and kill of the
\* owned process) before the failure propagates, and the failure that reaches
\* the caller is the transport's, even if the shutdown steps fail themselves.
C4_ShutdownThenReraise ==
    TransportFailed =>
        /\ op.result = Raised("TransportError", PyNone)
        /\ CallsOf(op.events) =
              IF Owned THEN <<"send", "remote_shutdown", "terminate", "kill">>
              ELSE <<"send", "remote_shutdown">>

C4_Witness ==
    /\ TransportFailed
    /\ Owned
    /\ op.events = <<Ev("send", FALSE), Ev("remote_shutdown", FALSE),
                     Ev("terminate", FALSE), Ev("kill", FALSE)>>
    /\ op.result.exc = "TransportError"

\* C5: for every response envelope whose error field is populated, with or
\* without data, the call raises the remote-execution RPCServerError carrying
\* that error message and returns no data; data is returned only when the
\* error field is empty.
C5_ErrorTakesPrecedence ==
    Answered =>
        /\ Populated(op.output.error) =>
              /\ op.result.status = "raised"
              /\ op.result.exc = "RPCServerError"
              /\ op.result.msg = [type |-> "str",
                                   repr |-> IF op.output.error = "\"boom\""
                                            THEN "boom" ELSE "oops"]
              /\ op.result.value = PyNone
        /\ op.result.status = "returned" => ~Populated(op.output.error)

C5_Witness ==
    /\ Answered
    /\ op.output.error = "\"boom\""
    /\ op.output.data = "5"
    /\ op.result = Raised("RPCServerError", PyStr("boom"))

\* C6: stop_server never raises and is idempotent: with a spawned process or a
\* reused server, called once or several times in a row, it completes without
\* an exception even when the remote shutdown request, terminate or kill fail.
C6_StopServerNeverRaises ==
    op.name = "stop_server" =>
        /\ op.result = Returned(PyNone)
        /\ CallsOf(op.events) =
              IF Owned THEN <<"remote_shutdown", "terminate", "kill">>
              ELSE <<"remote_shutdown">>

C6_Witness ==
    /\ op.name = "stop_server"
    /\ Owned
    /\ shutdowns >= 2
    /\ op.events = <<Ev("remote_shutdown", FALSE), Ev("terminate", FALSE),
                     Ev("kill", FALSE)>>
    /\ op.result.status = "returned"

\* C7: when a proxy is used in a with-scope, stop_server runs on every exit
\* path from the scope (normal completion, exception in the body, early
\* return): the remote shutdown is requested and the owned process is
\* terminated and killed.
C7_ScopeExitStopsServer ==
    /\ op.name = "exit" =>
          /\ op.arg \in ExitPaths
          /\ scope = "none"
          /\ Calls(op.events, "remote_shutdown") = 1
          /\ Owned => Calls(op.events, "terminate") = 1 /\ Calls(op.events, "kill") = 1
    /\ scope = "in" => op.name # "exit"

C7_Witness ==
    /\ op.name = "exit"
    /\ op.arg = "exception"
    /\ Owned
    /\ CallsOf(op.events) = <<"remote_shutdown", "terminate", "kill">>

\* C8: calling the callable obtained by accessing the undefined attribute n
\* forwards the call to the remote function named n (prefixed by the package
\* and a dot when a package is configured), whatever other remote names were
\* accessed between obtaining the callable and calling it.
C8_CallableKeepsItsName ==
    op.name = "call" => op.forwarded = __getattr__(_package, op.arg)

\* C9: try_reconnect never raises: when the liveness probe fails it returns
\* None, it returns the connection only when the probe succeeds, and either
\* way it spawns no process and leaves the process handle unchanged.
C9_TryReconnectNeverRaises ==
    /\ [](op.name = "try_reconnect" =>
            /\ op.events = <<Ev("ping", TRUE)>> \/ op.events = <<Ev("ping", FALSE)>>
            /\ op.result.status = "returned"
            /\ op.events[1].ok => op.result.value = PyServer
            /\ ~op.events[1].ok => op.result.value = PyNone)
    /\ [](op.name = "init" /\ ~op.events[1].ok =>
            Len(op.events) >= 2 /\ op.events[2].call = "Popen")
    /\ [][op'.name = "try_reconnect" =>
            _process' = _process /\ spawned' = spawned /\ _server' = _server]_vars

C9_Witness ==
    /\ op.name = "try_reconnect"
    /\ op.events = <<Ev("ping", FALSE)>>
    /\ op.result = Returned(PyNone)
    /\ Owned

\* C10: a remote call whose response envelope has an empty error field returns
\* the envelope's data field and sets the profile to the envelope's profile
\* field; the profile seen after any sequence of calls is the profile of the
\* most recent successful call.
C10_ProfileOfLastSuccess ==
    /\ (Answered /\ ~Populated(op.output.error)) =>
          /\ op.result.status = "returned"
          /\ op.result.value = (IF op.output.data = "5" THEN PyInt("5") ELSE PyNone)
          /\ _profile = (IF op.output.profile = "\"0.2s\"" THEN PyStr("0.2s") ELSE PyNone)
    /\ _profile = lastProfile

C10_Witness ==
    /\ Answered
    /\ op.output.error = "null"
    /\ op.result = Returned(PyInt("5"))
    /\ _profile = PyStr("0.2s")

\* The last operation was a remote call answered with the empty string.
AnsweredEmpty == op.name = "call" /\ op.output.kind = "empty"

\* C11: a remote call that receives an empty response from the transport
\* raises the empty-output RPCServerError and returns no value; the response
\* is not parsed as an envelope.
C11_EmptyOutputRaises ==
    AnsweredEmpty =>
        /\ op.result = Raised("RPCServerError", PyStr("No output was generated."))
        /\ op.result.value = PyNone
        /\ Calls(op.events, "json.loads") = 0
        /\ op.events = <<Ev("send", TRUE)>>

C11_Witness ==
    /\ AnsweredEmpty
    /\ op.result.exc = "RPCServerError"
    /\ op.result.msg = PyStr("No output was generated.")

\* The last operation ran the shutdown: stop_server, the exit from a
\* with-scope, or a remote call whose transport raised.
ShutdownPath == op.name \in {"stop_server", "exit"} \/ TransportFailed

\* C17: a proxy that reused a server (no process handle) never terminates or
\* kills a process, whatever it is asked to do, but its stop_server, its
\* with-scope exit and its transport-failure path still send the remote
\* shutdown request to the server it did not spawn.
C17_ReusedServerStillShutDown ==
    (pc = "ready" /\ ~Owned) =>
        /\ terminates = 0
        /\ kills = 0
        /\ spawned = 0
        /\ Calls(op.events, "terminate") = 0 /\ Calls(op.events, "kill") = 0
        /\ ShutdownPath => Calls(op.events, "remote_shutdown") = 1

C17_Witness ==
    /\ pc = "ready"
    /\ ~Owned
    /\ TransportFailed
    /\ CallsOf(op.events) = <<"send", "remote_shutdown">>
    /\ shutdowns >= 2
    /\ terminates = 0

\* The operation a step ends with is a remote call that raised the
\* empty-output or the remote-execution RPCServerError.
RPCFailure(o) == o.name = "call" /\ o.result.exc = "RPCServerError"

\* C18: a remote call that fails with the empty-output failure or with a
\* remote-execution failure leaves the profile, the connection and the process
\* handle unchanged and triggers no shutdown; the proxy stays usable.
C18_RPCFailureChangesNothing ==
    [][RPCFailure(op') =>
          /\ _profile' = _profile
          /\ _server' = _server
          /\ _process' = _process
          /\ _function' = _function
          /\ pc' = pc
          /\ shutdowns' = shutdowns /\ terminates' = terminates /\ kills' = kills
          /\ Calls(op'.events, "remote_shutdown") = 0]_vars

C18_Witness ==
    /\ RPCFailure(op)
    /\ op.output.kind = "json"
    /\ op.output.profile = "null"
    /\ _profile = PyStr("0.2s")
    /\ Owned
    /\ shutdowns = 0

\* C19: when start_server exhausts its retry budget and raises the
\* server-unavailable RPCServerError, no terminate or kill has been issued on
\* the process spawned by that call: construction fails with the process
\* still running and its handle still set.
C19_ExhaustionLeavesProcess ==
    (pc = "failed" /\ op.result.exc = "RPCServerError") =>
        /\ spawned = 1
        /\ _process = Handle
        /\ terminates = 0
        /\ kills = 0
        /\ shutdowns = 0

C19_Witness ==
    /\ pc = "failed"
    /\ op.result.exc = "RPCServerError"
    /\ spawned = 1
    /\ terminates + kills = 0
    /\ op.events[3] = Ev("ping", FALSE)

RECURSIVE PyEq(_, _)
\* Python's == on two values (nan is not equal to itself; dicts compare
\* whatever the order of their entries).
PyEq(a, b) ==
    IF a.type # b.type THEN FALSE
    ELSE CASE a.type \in {"list", "tuple"} ->
                 /\ Len(a.items) = Len(b.items)
                 /\ \A i \in 1..Len(a.items) : PyEq(a.items[i], b.items[i])
           [] a.type = "dict" ->
                 /\ Len(a.entries) = Len(b.entries)
                 /\ \A i \in 1..Len(a.entries) : \E n \in 1..Len(b.entries) :
                       /\ PyEq(a.entries[i].key, b.entries[n].key)
                       /\ PyEq(a.entries[i].value, b.entries[n].value)
           [] a.type = "float" -> a.repr = b.repr /\ a.repr # "nan"
           [] OTHER -> a.repr = b.repr

\* The received arguments are value-equal to the ones the call was made with.
RoundTripEqual ==
    /\ PyEq(PyList(envelope.out_args), PyList(envelope.args))
    /\ PyEq(PyDict(envelope.out_kwargs), PyDict(envelope.kwargs))

RECURSIVE JsonFaithful(_)
\* A value all of whose mapping keys are strings and none of whose numbers is
\* nan.
JsonFaithful(v) ==
    CASE v.type \in {"list", "tuple"} ->
            \A i \in 1..Len(v.items) : JsonFaithful(v.items[i])
      [] v.type = "dict" ->
            \A i \in 1..Len(v.entries) :
                v.entries[i].key.type = "str" /\ JsonFaithful(v.entries[i].value)
      [] v.type = "float" -> v.repr # "nan"
      [] OTHER -> TRUE

\* C12 as claimed: for every (args, kwargs) built from numbers, strings,
\* booleans, null, lists and mappings, serializing into the call envelope and
\* deserializing it yields value-equal positional and named arguments.
C12_RoundTripAllValues ==
    envelope.stage = "received" => RoundTripEqual

\* C12: for every (args, kwargs) built from numbers other than nan, strings,
\* booleans, null, lists and mappings with string keys, serializing into the
\* call envelope and deserializing it yields value-equal positional and named
\* arguments.
C12_RoundTripStringKeys ==
    (/\ envelope.stage = "received"
     /\ JsonFaithful(PyList(envelope.args))
     /\ JsonFaithful(PyDict(envelope.kwargs))) => RoundTripEqual

C12_Witness ==
    /\ envelope.stage = "received"
    /\ envelope.args = <<PyDict(<<Entry(PyStr("k"), PyInt("5"))>>), PyList(<<PyInt("5"), PyStr("a")>>)>>
    /\ envelope.kwargs = <<Entry(PyStr("k"), PyList(<<PyNone>>))>>
    /\ envelope.out_args = envelope.args
    /\ envelope.out_kwargs = envelope.kwargs

\* NetworkArtist.draw_nodes(nodes): the selection drawn is the argument, or
\* the nodes property when the argument is None or empty; the points go to
\* the nodes grouping.
draw_nodes(arg, sel, cache) ==
    LET fromArg == arg.given /\ arg.items # <<>>
        c == nodecollection(cache)
    IN  [sel |-> IF fromArg THEN sel ELSE nodes(sel),
         collection |-> c.collection,
         events |-> c.events \o <<"draw_points">>,
         drawn |-> Len(IF fromArg THEN arg.items ELSE nodes(sel).items)]

\* NetworkArtist.draw_edges(edges), likewise with lines.
draw_edges(arg, sel, cache) ==
    LET fromArg == arg.given /\ arg.items # <<>>
        c == edgecollection(cache)
    IN  [sel |-> IF fromArg THEN sel ELSE edges(sel),
         collection |-> c.collection,
         events |-> c.events \o <<"draw_lines">>,
         drawn |-> Len(IF fromArg THEN arg.items ELSE edges(sel).items)]

\* The four cached groupings, by name.
Caches ==
    [Nodes |-> _nodecollection, Edges |-> _edgecollection,
     NodeLabels |-> _nodelabelcollection, EdgeLabels |-> _edgelabelcollection]

\* The cached groupings after an operation.
SetCaches(c) ==
    /\ _nodecollection' = c.Nodes
    /\ _edgecollection' = c.Edges
    /\ _nodelabelcollection' = c.NodeLabels
    /\ _edgelabelcollection' = c.EdgeLabels

\* How many groupings the host was asked to create in a sequence of events.
Creations(events) == Len(SelectSeq(events, LAMBDA e : e = "create_collection"))

\* NetworkArtist(network, nodes=..., edges=..., show_nodes=..., show_edges=...)
MakeArtist(nodesel, edgesel, shownodes, showedges) ==
    /\ apc = "none"
    /\ apc' = "made"
    /\ _nodes' = nodesel
    /\ _edges' = edgesel
    /\ show_nodes' = shownodes
    /\ show_edges' = showedges
    /\ aop' = AOp("init", PyNone, <<>>, "", <<>>)
    /\ UNCHANGED <<_nodecollection, _edgecollection, _nodelabelcollection,
                   _edgelabelcollection, created, objects, ndraws>>
    /\ UNCHANGED <<proxyVars, envelope>>

\* Reading one of the four grouping properties.
ReadCollection(name) ==
    /\ apc = "made"
    /\ ndraws < MaxDraws
    /\ LET c == collection_of(name, Caches[name])
       IN  /\ SetCaches([Caches EXCEPT ![name] = c.collection])
           /\ created' = [created EXCEPT ![name] = @ + Creations(c.events)]
           /\ aop' = AOp("read", PyStr(name), c.events, "", <<>>)
    /\ ndraws' = ndraws + 1
    /\ UNCHANGED <<apc, _nodes, _edges, show_nodes, show_edges, objects>>
    /\ UNCHANGED <<proxyVars, envelope>>

\* clear_nodes, clear_edges, clear_nodelabels, clear_edgelabels: delete the
\* objects of the grouping the property returns.
Clear(name) ==
    /\ apc = "made"
    /\ ndraws < MaxDraws
    /\ LET c == collection_of(name, Caches[name])
       IN  /\ SetCaches([Caches EXCEPT ![name] = c.collection])
           /\ created' = [created EXCEPT ![name] = @ + Creations(c.events)]
           /\ aop' = AOp("clear", PyStr(name), c.events \o <<"delete_objects">>, "", <<>>)
    /\ objects' = [objects EXCEPT ![name] = 0]
    /\ ndraws' = ndraws + 1
    /\ UNCHANGED <<apc, _nodes, _edges, show_nodes, show_edges>>
    /\ UNCHANGED <<proxyVars, envelope>>

\* artist.draw_nodes(nodes=arg)
DrawNodes(arg) ==
    /\ apc = "made"
    /\ ndraws < MaxDraws
    /\ LET d == draw_nodes(arg, _nodes, _nodecollection)
       IN  /\ _nodes' = d.sel
           /\ SetCaches([Caches EXCEPT !.Nodes = d.collection])
           /\ created' = [created EXCEPT !.Nodes = @ + Creations(d.events)]
           /\ objects' = [objects EXCEPT !.Nodes = @ + d.drawn]
           /\ aop' = AOp("draw_nodes", PyNone, d.events, "", <<>>)
    /\ ndraws' = ndraws + 1
    /\ UNCHANGED <<apc, _edges, show_nodes, show_edges>>
    /\ UNCHANGED <<proxyVars, envelope>>

\* artist.draw_edges(edges=arg)
DrawEdges(arg) ==
    /\ apc = "made"
    /\ ndraws < MaxDraws
    /\ LET d == draw_edges(arg, _edges, _edgecollection)
       IN  /\ _edges' = d.sel
           /\ SetCaches([Caches EXCEPT !.Edges = d.collection])
           /\ created' = [created EXCEPT !.Edges = @ + Creations(d.events)]
           /\ objects' = [objects EXCEPT !.Edges = @ + d.drawn]
           /\ aop' = AOp("draw_edges", PyNone, d.events, "", <<>>)
    /\ ndraws' = ndraws + 1
    /\ UNCHANGED <<apc, _nodes, show_nodes, show_edges>>
    /\ UNCHANGED <<proxyVars, envelope>>

\* The clear() the artist inherits: the visuals drawn so far are deleted.
clear(objs) == [g \in Groupings |-> 0]

\* artist.draw(): clear(), then draw_nodes() and draw_edges() as the
\* visibility flags say.
Draw ==
    /\ apc = "made"
    /\ ndraws < MaxDraws
    /\ LET calls == draw(show_nodes, show_edges)
           withNodes == \E i \in 1..Len(calls) : calls[i] = "draw_nodes"
           withEdges == \E i \in 1..Len(calls) : calls[i] = "draw_edges"
           cleared == IF calls # <<>> /\ calls[1] = "clear" THEN clear(objects) ELSE objects
           n == draw_nodes(NoSelection, _nodes, _nodecollection)
           e == draw_edges(NoSelection, _edges, _edgecollection)
           step(i) == CASE calls[i] = "clear" -> <<"clear">>
                        [] calls[i] = "draw_nodes" -> n.events
                        [] calls[i] = "draw_edges" -> e.events
           events == IF Len(calls) = 3 THEN step(1) \o step(2) \o step(3)
                     ELSE IF Len(calls) = 2 THEN step(1) \o step(2)
                     ELSE step(1)
       IN  /\ _nodes' = IF withNodes THEN n.sel ELSE _nodes
           /\ _edges' = IF withEdges THEN e.sel ELSE _edges
           /\ SetCaches([Caches EXCEPT
                            !.Nodes = IF withNodes THEN n.collection ELSE @,
                            !.Edges = IF withEdges THEN e.collection ELSE @])
           /\ created' = [created EXCEPT
                            !.Nodes = @ + (IF withNodes THEN Creations(n.events) ELSE 0),
                            !.Edges = @ + (IF withEdges THEN Creations(e.events) ELSE 0)]
           /\ objects' = [cleared EXCEPT
                            !.Nodes = @ + (IF withNodes THEN n.drawn ELSE 0),
                            !.Edges = @ + (IF withEdges THEN e.drawn ELSE 0)]
           /\ aop' = AOp("draw", PyNone, events, "", <<>>)
    /\ ndraws' = ndraws + 1
    /\ UNCHANGED <<apc, show_nodes, show_edges>>
    /\ UNCHANGED <<proxyVars, envelope>>

\* artist.draw_nodelabels(text=text)
DrawNodeLabels(text) ==
    /\ apc = "made"
    /\ ndraws < MaxDraws
    /\ LET t == node_text(text, _nodes)
           c == nodelabelcollection(_nodelabelcollection)
       IN  IF t.raised # ""
           THEN /\ aop' = AOp("draw_nodelabels", text, <<>>, t.raised, <<>>)
                /\ UNCHANGED <<_nodes, _nodecollection, _edgecollection,
                               _nodelabelcollection, _edgelabelcollection,
                               created, objects>>
           ELSE /\ _nodes' = t.sel
                /\ SetCaches([Caches EXCEPT !.NodeLabels = c.collection])
                /\ created' = [created EXCEPT !.NodeLabels = @ + Creations(c.events)]
                /\ objects' = [objects EXCEPT !.NodeLabels = @ + Len(t.labels)]
                /\ aop' = AOp("draw_nodelabels", text, c.events \o <<"draw_texts">>,
                              "", t.labels)
    /\ ndraws' = ndraws + 1
    /\ UNCHANGED <<apc, _edges, show_nodes, show_edges>>
    /\ UNCHANGED <<proxyVars, envelope>>

\* artist.draw_edgelabels(text=text)
DrawEdgeLabels(text) ==
    /\ apc = "made"
    /\ ndraws < MaxDraws
    /\ LET t == edge_text(text, _edges)
           c == edgelabelcollection(_edgelabelcollection)
       IN  IF t.raised # ""
           THEN /\ aop' = AOp("draw_edgelabels", text, <<>>, t.raised, <<>>)
                /\ UNCHANGED <<_edges, _nodecollection, _edgecollection,
                               _nodelabelcollection, _edgelabelcollection,
                               created, objects>>
           ELSE /\ _edges' = t.sel
                /\ SetCaches([Caches EXCEPT !.EdgeLabels = c.collection])
                /\ created' = [created EXCEPT !.EdgeLabels = @ + Creations(c.events)]
                /\ objects' = [objects EXCEPT !.EdgeLabels = @ + Len(t.labels)]
                /\ aop' = AOp("draw_edgelabels", text, c.events \o <<"draw_texts">>,
                              "", t.labels)
    /\ ndraws' = ndraws + 1
    /\ UNCHANGED <<apc, _nodes, show_nodes, show_edges>>
    /\ UNCHANGED <<proxyVars, envelope>>

ArtistNext ==
    \/ \E nodesel \in NodeSelections, edgesel \in EdgeSelections,
          shownodes \in BOOLEAN, showedges \in BOOLEAN :
           MakeArtist(nodesel, edgesel, shownodes, showedges)
    \/ \E name \in Groupings : ReadCollection(name)
    \/ \E name \in Groupings : Clear(name)
    \/ \E arg \in {NoSelection, Selection(<<20>>)} : DrawNodes(arg)
    \/ \E arg \in {NoSelection, Selection(<<(<<10, 20>>)>>)} : DrawEdges(arg)
    \/ Draw
    \/ \E text \in NodeTexts : DrawNodeLabels(text)
    \/ \E text \in EdgeTexts : DrawEdgeLabels(text)

ArtistSpec == Init /\ [][ArtistNext]_vars

(***************************************************************************)
(* Properties of the artist.                                               *)
(***************************************************************************)

\* C13: each of the four sub-groupings (nodes, edges, node labels, edge
\* labels) is created at most once: on the first access, and every later
\* access, through any sequence of clear_* and draw_* operations, returns that
\* same grouping without creating another.
C13_GroupingsCreatedOnce ==
    /\ [](\A g \in Groupings :
            /\ created[g] <= 1
            /\ Caches[g] # "None" <=> created[g] = 1
            /\ Caches[g] \in {"None", g})
    /\ [][\A g \in Groupings :
            Caches[g] # "None" => Caches'[g] = Caches[g] /\ created'[g] = created[g]]_vars

C13_Witness ==
    /\ aop.name = "clear"
    /\ aop.text = PyStr("Nodes")
    /\ aop.events = <<"delete_objects">>
    /\ _nodecollection = "Nodes"
    /\ created.Nodes = 1
    /\ ndraws = 3

\* C14: every draw() clears the prior visuals before it draws anything, then
\* draws the nodes if and only if show_nodes is set and the edges if and only
\* if show_edges is set, nodes before edges.
C14_DrawClearsThenDraws ==
    aop.name = "draw" =>
        /\ aop.events[1] = "clear"
        /\ SelectSeq(aop.events, LAMBDA e : e \in {"clear", "draw_points", "draw_lines"})
              = <<"clear">>
                  \o (IF show_nodes THEN <<"draw_points">> ELSE <<>>)
                  \o (IF show_edges THEN <<"draw_lines">> ELSE <<>>)
        /\ objects.Nodes = IF show_nodes THEN Len(_nodes.items) ELSE 0
        /\ objects.Edges = IF show_edges THEN Len(_edges.items) ELSE 0

C14_Witness ==
    /\ aop.name = "draw"
    /\ show_nodes
    /\ ~show_edges
    /\ _edgecollection = "Edges"
    /\ aop.events = <<"clear", "create_collection", "draw_points">>
    /\ objects.Nodes = 3
    /\ objects.Edges = 0

\* C15: draw_nodelabels with text='index' labels each node of the artist's
\* node selection with the string of its position in the selection (0, 1,
\* 2, ...), not its identifier, for every node selection including the
\* default selection of all nodes.
C15_IndexLabelsEverySelection ==
    (aop.name = "draw_nodelabels" /\ IsStr(aop.text, "index")) =>
        LET selection == nodes(_nodes).items
        IN  /\ aop.raised = ""
            /\ aop.labels = [i \in 1..Len(selection) |->
                                Label(selection[i], ToString(i - 1))]

\* The shapes of the text argument the label methods support: absent, the
\* strings 'key' and 'index', a mapping.
SupportedText(text) ==
    \/ text.type = "NoneType"
    \/ IsStr(text, "key")
    \/ IsStr(text, "index")
    \/ text.type = "dict"

\* C16: draw_nodelabels and draw_edgelabels raise NotImplementedError, and
\* draw no label, for every text argument that is not one of the supported
\* shapes; no argument outside those shapes is silently accepted.
C16_UnsupportedTextRaises ==
    (aop.name \in {"draw_nodelabels", "draw_edgelabels"} /\ ~SupportedText(aop.text)) =>
        /\ aop.raised = "NotImplementedError"
        /\ aop.labels = <<>>
        /\ aop.events = <<>>

====
